---- MODULE Spec2Model ----
(***************************************************************************)
(* Leaf expressions of pyteal: Global (pyteal/ast/global_.py), Int and     *)
(* EnumInt (pyteal/ast/int.py): construction, type_of, __str__ and the     *)
(* lowering operation __teal__.                                            *)
(***************************************************************************)
EXTENDS Integers, Sequences, FiniteSets, TLC

(***************************************************************************)
(* Bounds of the model.                                                    *)
(***************************************************************************)
\* number of expression objects the client may construct
MaxNodes == 1
\* target versions 1..MaxVersion are offered as options.version
MaxVersion == 3
\* integer inputs are taken within MaxDelta of the two ends of [0, 2^64)
MaxDelta == 2

(***************************************************************************)
(* State.                                                                  *)
(***************************************************************************)
VARIABLES
    heap,           \* the expression objects constructed so far, in order
    ctor,           \* the last constructor call: its argument, the number of
                    \* objects there were before it, and how it ended
    intEnumValues,  \* the module-level dict of int.py
    options,        \* the caller's CompileOptions object
    frame,          \* the current (or last) call of __teal__
    remembered,     \* an earlier finished call of __teal__, kept to compare
    typeOut,        \* the last call of type_of, its result, and how the last
                    \* call of __teal__ before it had ended
    strOut          \* the last call of __str__ and its result

vars == <<heap, ctor, intEnumValues, options, frame, remembered, typeOut, strOut>>

(***************************************************************************)
(* Python's arbitrary-precision int.  A value is a sign and a magnitude,   *)
(* the magnitude a little-endian sequence of limbs below Base with no      *)
(* leading zero limb (zero is the empty sequence), as in CPython.          *)
(***************************************************************************)
Base == 2^15

Zero == [neg |-> FALSE, mag |-> <<>>]

RECURSIVE Norm(_)
Norm(m) ==
    IF m = <<>> THEN <<>>
    ELSE IF m[Len(m)] = 0 THEN Norm(SubSeq(m, 1, Len(m) - 1))
    ELSE m

\* -1, 0, 1 as a < b, a = b, a > b, comparing limb i and the limbs below it
RECURSIVE MagCmpFrom(_, _, _)
MagCmpFrom(a, b, i) ==
    IF i = 0 THEN 0
    ELSE IF a[i] < b[i] THEN -1
    ELSE IF a[i] > b[i] THEN 1
    ELSE MagCmpFrom(a, b, i - 1)

MagCmp(a, b) ==
    IF Len(a) < Len(b) THEN -1
    ELSE IF Len(a) > Len(b) THEN 1
    ELSE MagCmpFrom(a, b, Len(a))

\* a * k + c for small k and c
RECURSIVE MagMulAdd(_, _, _)
MagMulAdd(a, k, c) ==
    IF a = <<>> THEN (IF c = 0 THEN <<>> ELSE <<c>>)
    ELSE LET t == a[1] * k + c
         IN  <<t % Base>> \o MagMulAdd(Tail(a), k, t \div Base)

\* a - c for a small c <= a
RECURSIVE MagSubSmall(_, _)
MagSubSmall(a, c) ==
    IF c = 0 THEN a
    ELSE IF a[1] >= c THEN <<a[1] - c>> \o Tail(a)
    ELSE <<a[1] + Base - c>> \o MagSubSmall(Tail(a), 1)

\* quotient and remainder of a by a small d, from the top limb down
RECURSIVE MagDivStep(_, _, _, _, _)
MagDivStep(a, d, i, rem, acc) ==
    IF i = 0 THEN [q |-> Norm(acc), r |-> rem]
    ELSE LET cur == rem * Base + a[i]
         IN  MagDivStep(a, d, i - 1, cur % d, <<cur \div d>> \o acc)

MagDivMod(a, d) == MagDivStep(a, d, Len(a), 0, <<>>)

FromNat(n) == [neg |-> FALSE, mag |-> MagMulAdd(<<>>, 1, n)]

IntNeg(x) == IF x.mag = <<>> THEN x ELSE [neg |-> ~x.neg, mag |-> x.mag]

\* x + d for a small natural d
IntAddNat(x, d) ==
    IF ~x.neg THEN [neg |-> FALSE, mag |-> MagMulAdd(x.mag, 1, d)]
    ELSE IF MagCmp(x.mag, FromNat(d).mag) >= 0
         THEN LET m == Norm(MagSubSmall(x.mag, d))
              IN  [neg |-> m # <<>>, mag |-> m]
         ELSE FromNat(d - x.mag[1])

\* x + d for a small integer d
IntAddSmall(x, d) ==
    IF d >= 0 THEN IntAddNat(x, d) ELSE IntNeg(IntAddNat(IntNeg(x), -d))

\* a + b
RECURSIVE MagAdd(_, _, _)
MagAdd(a, b, c) ==
    IF a = <<>> THEN MagMulAdd(b, 1, c)
    ELSE IF b = <<>> THEN MagMulAdd(a, 1, c)
    ELSE LET t == a[1] + b[1] + c
         IN  <<t % Base>> \o MagAdd(Tail(a), Tail(b), t \div Base)

\* a * b, one limb of b at a time
RECURSIVE MagMul(_, _)
MagMul(a, b) ==
    IF b = <<>> \/ a = <<>> THEN <<>>
    ELSE MagAdd(MagMulAdd(a, b[1], 0), Norm(<<0>> \o MagMul(a, Tail(b))), 0)

\* b ** e for a natural b, by squaring
RECURSIVE IntPow(_, _)
IntPow(b, e) ==
    IF e = 0 THEN FromNat(1)
    ELSE LET h == IntPow(b, e \div 2).mag
             sq == MagMul(h, h)
         IN  [neg |-> FALSE,
              mag |-> IF e % 2 = 1 THEN MagMulAdd(sq, b, 0) ELSE sq]

\* 2 ** 64
TwoTo64 == IntPow(2, 64)

\* x < y
IntLess(x, y) ==
    IF x.neg # y.neg THEN x.neg
    ELSE IF x.neg THEN MagCmp(x.mag, y.mag) = 1
    ELSE MagCmp(x.mag, y.mag) = -1

\* x >= y
IntGE(x, y) == ~IntLess(x, y)

(***************************************************************************)
(* str(int): the decimal digits, most significant first.                   *)
(***************************************************************************)
DigitChar == <<"0", "1", "2", "3", "4", "5", "6", "7", "8", "9">>

RECURSIVE MagDigits(_)
MagDigits(m) ==
    IF m = <<>> THEN <<>>
    ELSE LET qr == MagDivMod(m, 10)
         IN  Append(MagDigits(qr.q), qr.r)

DecDigits(m) == IF m = <<>> THEN <<0>> ELSE MagDigits(m)

RECURSIVE JoinDigits(_)
JoinDigits(ds) ==
    IF ds = <<>> THEN "" ELSE DigitChar[ds[1] + 1] \o JoinDigits(Tail(ds))

IntStr(x) == (IF x.neg THEN "-" ELSE "") \o JoinDigits(DecDigits(x.mag))

(***************************************************************************)
(* Python values handed to the constructors and held by instructions.      *)
(* type is type(value).__name__; num is the numeric value of an int (for a *)
(* bool or a float, the integer it compares like); s is the text of a str, *)
(* the repr of a float or bool, or the member name of an Op; ref is the    *)
(* index in heap of an expression object.                                  *)
(***************************************************************************)
PyInt(v) == [type |-> "int", num |-> v, s |-> "", ref |-> 0]
PyStr(t) == [type |-> "str", num |-> Zero, s |-> t, ref |-> 0]
PyBool(b) == [type |-> "bool", num |-> FromNat(IF b THEN 1 ELSE 0),
              s |-> IF b THEN "True" ELSE "False", ref |-> 0]
PyFloat(floor, repr) == [type |-> "float", num |-> floor, s |-> repr, ref |-> 0]
PyNone == [type |-> "NoneType", num |-> Zero, s |-> "None", ref |-> 0]
PyOp(name) == [type |-> "Op", num |-> Zero, s |-> name, ref |-> 0]
PyRef(cls, i) == [type |-> cls, num |-> Zero, s |-> "", ref |-> i]

\* str(type(value))
TypeRepr(v) == "<class '" \o v.type \o "'>"

(***************************************************************************)
(* Errors.  exc is the exception class; the other fields are what the      *)
(* exception carries.                                                      *)
(***************************************************************************)
NoErr == [exc |-> "", msg |-> "", field |-> "", min_version |-> 0,
          version |-> 0]

TealInputError(msg) == [NoErr EXCEPT !.exc = "TealInputError", !.msg = msg]

\* Python's own error for a call whose arguments do not fit the parameters
TypeError(msg) == [NoErr EXCEPT !.exc = "TypeError", !.msg = msg]

(***************************************************************************)
(* pyteal/ast/global_.py                                                   *)
(***************************************************************************)
GlobalField ==
    [min_txn_fee |-> [id |-> 0, arg_name |-> "MinTxnFee", ret_type |-> "uint64", min_version |-> 2],
     min_balance |-> [id |-> 1, arg_name |-> "MinBalance", ret_type |-> "uint64", min_version |-> 2],
     max_txn_life |-> [id |-> 2, arg_name |-> "MaxTxnLife", ret_type |-> "uint64", min_version |-> 2],
     zero_address |-> [id |-> 3, arg_name |-> "ZeroAddress", ret_type |-> "bytes", min_version |-> 2],
     group_size |-> [id |-> 4, arg_name |-> "GroupSize", ret_type |-> "uint64", min_version |-> 2],
     logic_sig_version |-> [id |-> 5, arg_name |-> "LogicSigVersion", ret_type |-> "uint64", min_version |-> 2],
     round |-> [id |-> 6, arg_name |-> "Round", ret_type |-> "uint64", min_version |-> 2],
     latest_timestamp |-> [id |-> 7, arg_name |-> "LatestTimestamp", ret_type |-> "uint64", min_version |-> 2],
     current_app_id |-> [id |-> 8, arg_name |-> "CurrentApplicationID", ret_type |-> "uint64", min_version |-> 2],
     creator_address |-> [id |-> 9, arg_name |-> "CreatorAddress", ret_type |-> "bytes", min_version |-> 3]]

\* GlobalField.type_of
GlobalField_type_of(field) == GlobalField[field].ret_type

(***************************************************************************)
(* Expression objects.  cls is the class; field is Global.field (a member  *)
(* of GlobalField), value is Int.value, name is EnumInt.name; a class's    *)
(* object leaves the other classes' attributes at their defaults.          *)
(***************************************************************************)
NoNode == [cls |-> "", field |-> "", value |-> Zero, name |-> ""]

\* Global.__init__
Global__init__(field) == [NoNode EXCEPT !.cls = "Global", !.field = field]

\* the factories Global.min_txn_fee() ... Global.creator_address(), by name
GlobalFactory ==
    [min_txn_fee |-> "min_txn_fee", min_balance |-> "min_balance",
     max_txn_life |-> "max_txn_life", zero_address |-> "zero_address",
     group_size |-> "group_size", logic_sig_version |-> "logic_sig_version",
     round |-> "round", latest_timestamp |-> "latest_timestamp",
     current_application_id |-> "current_app_id",
     creator_address |-> "creator_address"]

\* a type_of that consults the lowering context
Global_type_of_versioned(node) ==
    IF options.version >= GlobalField[node.field].min_version
    THEN GlobalField_type_of(node.field)
    ELSE "none"

\* Global.type_of
Global_type_of(node) == GlobalField_type_of(node.field)

\* Global.__str__
Global__str__(node) == "(Global " \o GlobalField[node.field].arg_name \o ")"

(***************************************************************************)
(* pyteal/ast/int.py                                                       *)
(***************************************************************************)
\* an Int.__init__ that takes "positive" literally
Int__init__positive(value) ==
    IF value.type # "int"
    THEN [ok |-> FALSE, node |-> NoNode,
          exc |-> TealInputError("invalid input type " \o TypeRepr(value) \o " to Int")]
    ELSE IF IntLess(Zero, value.num) /\ IntLess(value.num, TwoTo64)
    THEN [ok |-> TRUE, node |-> [NoNode EXCEPT !.cls = "Int", !.value = value.num],
          exc |-> NoErr]
    ELSE [ok |-> FALSE, node |-> NoNode,
          exc |-> TealInputError("Int " \o IntStr(value.num) \o " is out of range")]

\* an Int.__init__ that compares before it looks at the type; Python raises
\* TypeError when it compares a str or None with an int
Int__init__rangefirst(value) ==
    IF value.type \notin {"int", "bool", "float"}
    THEN [ok |-> FALSE, node |-> NoNode,
          exc |-> TypeError("'>=' not supported between instances")]
    ELSE IF ~(IntGE(value.num, Zero) /\ IntLess(value.num, TwoTo64))
    THEN [ok |-> FALSE, node |-> NoNode,
          exc |-> TealInputError("Int " \o (IF value.type = "int" THEN IntStr(value.num) ELSE value.s)
                                  \o " is out of range")]
    ELSE IF value.type # "int"
    THEN [ok |-> FALSE, node |-> NoNode,
          exc |-> TealInputError("invalid input type " \o TypeRepr(value) \o " to Int")]
    ELSE [ok |-> TRUE, node |-> [NoNode EXCEPT !.cls = "Int", !.value = value.num],
          exc |-> NoErr]

\* Int.__init__: the node, or the error raised
Int__init__(value) ==
    IF value.type # "int"
    THEN [ok |-> FALSE, node |-> NoNode,
          exc |-> TealInputError("invalid input type " \o TypeRepr(value) \o " to Int")]
    ELSE IF IntGE(value.num, Zero) /\ IntLess(value.num, TwoTo64)
    THEN [ok |-> TRUE, node |-> [NoNode EXCEPT !.cls = "Int", !.value = value.num],
          exc |-> NoErr]
    ELSE [ok |-> FALSE, node |-> NoNode,
          exc |-> TealInputError("Int " \o IntStr(value.num) \o " is out of range")]

\* Int.__str__
Int__str__(node) == "(Int: " \o IntStr(node.value) \o ")"

\* Int.type_of
Int_type_of(node) == "uint64"

\* the dict intEnumValues as the module body builds it
intEnumValues_literal ==
    [NoOp |-> 0, OptIn |-> 1, CloseOut |-> 2, ClearState |-> 3,
     UpdateApplication |-> 4, DeleteApplication |-> 5,
     unknown |-> 0, pay |-> 1, keyreg |-> 2, acfg |-> 3, axfer |-> 4,
     afrz |-> 5, appl |-> 6]

\* an EnumInt.__init__ that leaves the lookup to __teal__
EnumInt__init__deferred(table, name) ==
    [ok |-> TRUE, node |-> [NoNode EXCEPT !.cls = "EnumInt", !.name = name],
     exc |-> NoErr]

\* EnumInt.__init__ against the dict's current content
EnumInt__init__(table, name) ==
    IF name \notin DOMAIN table
    THEN [ok |-> FALSE, node |-> NoNode,
          exc |-> TealInputError("Unknown int enum value: " \o name)]
    ELSE [ok |-> TRUE, node |-> [NoNode EXCEPT !.cls = "EnumInt", !.name = name],
          exc |-> NoErr]

\* EnumInt.__str__
EnumInt__str__(node) == "(IntEnum: " \o node.name \o ")"

\* EnumInt.type_of
EnumInt_type_of(node) == "uint64"

\* expr.type_of() and str(expr), dispatched on the object's class
type_of(node) ==
    CASE node.cls = "Global" -> Global_type_of(node)
      [] node.cls = "Int" -> Int_type_of(node)
      [] node.cls = "EnumInt" -> EnumInt_type_of(node)

Str(node) ==
    CASE node.cls = "Global" -> Global__str__(node)
      [] node.cls = "Int" -> Int__str__(node)
      [] node.cls = "EnumInt" -> EnumInt__str__(node)

(***************************************************************************)
(* pyteal/errors.py and pyteal/ir: what the lowering code calls.           *)
(***************************************************************************)
\* verifyFieldVersion(fieldName, fieldMinVersion, version): the error raised,
\* NoErr when the field is available in that version
verifyFieldVersion(fieldName, fieldMinVersion, version) ==
    IF version >= fieldMinVersion THEN NoErr
    ELSE [exc |-> "UnsupportedVersionError",
          msg |-> "version too low to use field " \o fieldName,
          field |-> fieldName, min_version |-> fieldMinVersion,
          version |-> version]

NoTealOp == [set |-> FALSE, expr |-> PyNone, op |-> PyNone, args |-> <<>>]

\* TealOp(expr, op, *args) called with the positional arguments posargs
TealOp(posargs) ==
    IF Len(posargs) < 2
    THEN [ok |-> FALSE, op |-> NoTealOp,
          exc |-> TypeError("__init__() missing required positional argument")]
    ELSE [ok |-> TRUE,
          op |-> [set |-> TRUE, expr |-> posargs[1], op |-> posargs[2],
                  args |-> SubSeq(posargs, 3, Len(posargs))],
          exc |-> NoErr]

NoBlock == [set |-> FALSE, ops |-> <<>>, version |-> 0]

\* TealBlock.FromOp(options, op) called with the positional arguments posargs
TealBlock_FromOp(posargs) ==
    IF Len(posargs) < 2
    THEN [ok |-> FALSE, block |-> NoBlock,
          exc |-> TypeError("FromOp() missing 1 required positional argument: 'op'")]
    ELSE [ok |-> TRUE,
          block |-> [set |-> TRUE, ops |-> <<posargs[2]>>,
                     version |-> posargs[1].version],
          exc |-> NoErr]

(***************************************************************************)
(* The initial state.                                                      *)
(***************************************************************************)
NoCtor == [cls |-> "", arg |-> PyNone, before |-> 0, ok |-> FALSE,
           exc |-> NoErr, ref |-> 0]

IdleFrame == [pc |-> "idle", self |-> 0, nargs |-> 0, version |-> 0, ip |-> 0,
              verified |-> FALSE, op |-> NoTealOp, block |-> NoBlock,
              exc |-> NoErr]

NoOut == [node |-> 0, result |-> ""]

NoTypeOut == [node |-> 0, result |-> "", after |-> [self |-> 0, pc |-> "idle", exc |-> ""]]

Init ==
    /\ heap = <<>>
    /\ ctor = NoCtor
    /\ intEnumValues = intEnumValues_literal
    /\ options \in [version : 1..MaxVersion]
    /\ frame = IdleFrame
    /\ remembered = IdleFrame
    /\ typeOut = NoTypeOut
    /\ strOut = NoOut

(***************************************************************************)
(* Inputs.                                                                 *)
(***************************************************************************)
IntValues ==
    {IntAddSmall(a, d) : a \in {Zero, TwoTo64}, d \in -MaxDelta..MaxDelta}
        \cup {IntPow(2, 63)}

NonIntArgs ==
    {PyBool(TRUE), PyFloat(FromNat(1), "1.5"),
     PyFloat(IntNeg(FromNat(1)), "-1.0"),
     PyFloat(TwoTo64, "1.8446744073709552e+19"), PyStr("7"), PyNone}

IntArgs == {PyInt(v) : v \in IntValues} \cup NonIntArgs

\* the arguments Int accepts
LiteralArgs == {a \in IntArgs : Int__init__(a).ok}

NameArgs ==
    DOMAIN intEnumValues_literal
        \cup {"optin", "OptIn ", "Pay", "", "NoOp,OptIn"}

(***************************************************************************)
(* Construction.  A constructor that raises leaves no object behind.       *)
(***************************************************************************)
Construct(cls, arg, res) ==
    /\ frame.pc # "running"
    /\ res.ok => Len(heap) < MaxNodes
    /\ heap' = IF res.ok THEN Append(heap, res.node) ELSE heap
    /\ ctor' = [cls |-> cls, arg |-> arg, before |-> Len(heap), ok |-> res.ok,
                exc |-> res.exc, ref |-> IF res.ok THEN Len(heap) + 1 ELSE 0]
    /\ UNCHANGED <<intEnumValues, options, frame, remembered, typeOut, strOut>>

NewInt(value) == Construct("Int", value, Int__init__(value))

NewEnumInt(name) ==
    Construct("EnumInt", PyStr(name), EnumInt__init__(intEnumValues, name))

NewGlobal(factory) ==
    Construct("Global", PyStr(factory),
              [ok |-> TRUE, node |-> Global__init__(GlobalFactory[factory]),
               exc |-> NoErr])

\* the caller makes a CompileOptions for another target version
NewOptions(version) ==
    /\ frame.pc # "running"
    /\ options.version # version
    /\ options' = [version |-> version]
    /\ UNCHANGED <<heap, ctor, intEnumValues, frame, remembered, typeOut, strOut>>

CallTypeOf(i) ==
    /\ frame.pc # "running"
    /\ i \in DOMAIN heap
    /\ typeOut' = [node |-> i, result |-> type_of(heap[i]),
                   after |-> [self |-> frame.self, pc |-> frame.pc,
                              exc |-> frame.exc.exc]]
    /\ UNCHANGED <<heap, ctor, intEnumValues, options, frame, remembered, strOut>>

CallStr(i) ==
    /\ frame.pc # "running"
    /\ i \in DOMAIN heap
    /\ strOut' = [node |-> i, result |-> Str(heap[i])]
    /\ UNCHANGED <<heap, ctor, intEnumValues, options, frame, remembered, typeOut>>

(***************************************************************************)
(* Lowering: expr.__teal__.                                                *)
(***************************************************************************)
\* the parameters of each class's __teal__
teal_params ==
    [Global |-> <<"self", "options">>, Int |-> <<"self">>, EnumInt |-> <<"self">>]

\* a Global.__teal__ without its version check
Global__teal__body_unchecked == <<"op", "return">>

\* a Global.__teal__ that checks the version after it built the instruction
Global__teal__body_late == <<"op", "verify", "return">>

\* the statements of each __teal__ in order
Global__teal__body == <<"verify", "op", "return">>
Int__teal__body == <<"op", "return">>
EnumInt__teal__body == <<"op", "return">>

\* The caller calls heap[i].__teal__(options) (nargs = 1) or
\* heap[i].__teal__() (nargs = 0).  Python binds the arguments to the
\* parameters and raises TypeError when they do not fit.
Call__teal__(i, nargs) ==
    /\ frame.pc # "running"
    /\ i \in DOMAIN heap
    /\ LET called == [IdleFrame EXCEPT !.self = i, !.nargs = nargs,
                          !.version = IF nargs = 1 THEN options.version ELSE 0]
           params == teal_params[heap[i].cls]
       IN  frame' =
             IF 1 + nargs > Len(params)
             THEN [called EXCEPT !.pc = "raised",
                      !.exc = TypeError("__teal__() takes 1 positional argument but 2 were given")]
             ELSE IF 1 + nargs < Len(params)
             THEN [called EXCEPT !.pc = "raised",
                      !.exc = TypeError("__teal__() missing 1 required positional argument: 'options'")]
             ELSE [called EXCEPT !.pc = "running", !.ip = 1]
    /\ UNCHANGED <<heap, ctor, intEnumValues, options, remembered, typeOut, strOut>>

Running(cls, body, stmt) ==
    /\ frame.pc = "running"
    /\ heap[frame.self].cls = cls
    /\ body[frame.ip] = stmt

\* the frame after a statement that built an instruction (or raised)
AfterOp(made) ==
    IF made.ok THEN [frame EXCEPT !.ip = @ + 1, !.op = made.op]
    ELSE [frame EXCEPT !.pc = "raised", !.exc = made.exc]

\* the frame after the return statement wrapped the instruction (or raised)
AfterReturn(made) ==
    IF made.ok THEN [frame EXCEPT !.pc = "returned", !.block = made.block]
    ELSE [frame EXCEPT !.pc = "raised", !.exc = made.exc]

\* verifyFieldVersion(self.field.arg_name, self.field.min_version, options.version)
Global__teal__verify ==
    /\ Running("Global", Global__teal__body, "verify")
    /\ LET row == GlobalField[heap[frame.self].field]
           e == verifyFieldVersion(row.arg_name, row.min_version, frame.version)
       IN  frame' = IF e.exc # ""
                    THEN [frame EXCEPT !.pc = "raised", !.exc = e]
                    ELSE [frame EXCEPT !.ip = @ + 1, !.verified = TRUE]
    /\ UNCHANGED <<heap, ctor, intEnumValues, options, remembered, typeOut, strOut>>

\* op = TealOp(self, Op.global_, self.field.arg_name)
Global__teal__op ==
    /\ Running("Global", Global__teal__body, "op")
    /\ frame' = AfterOp(TealOp(<<PyRef("Global", frame.self), PyOp("global_"),
                                 PyStr(GlobalField[heap[frame.self].field].arg_name)>>))
    /\ UNCHANGED <<heap, ctor, intEnumValues, options, remembered, typeOut, strOut>>

\* return TealBlock.FromOp(options, op)
Global__teal__return ==
    /\ Running("Global", Global__teal__body, "return")
    /\ frame' = AfterReturn(TealBlock_FromOp(<<[version |-> frame.version], frame.op>>))
    /\ UNCHANGED <<heap, ctor, intEnumValues, options, remembered, typeOut, strOut>>

\* op = TealOp(Op.int, self.value)
Int__teal__op ==
    /\ Running("Int", Int__teal__body, "op")
    /\ frame' = AfterOp(TealOp(<<PyOp("int"), PyInt(heap[frame.self].value)>>))
    /\ UNCHANGED <<heap, ctor, intEnumValues, options, remembered, typeOut, strOut>>

\* return TealBlock.FromOp(op)
Int__teal__return ==
    /\ Running("Int", Int__teal__body, "return")
    /\ frame' = AfterReturn(TealBlock_FromOp(<<frame.op>>))
    /\ UNCHANGED <<heap, ctor, intEnumValues, options, remembered, typeOut, strOut>>

\* op = TealOp(Op.int, intEnumValues[self.name])
EnumInt__teal__op ==
    /\ Running("EnumInt", EnumInt__teal__body, "op")
    /\ frame' = AfterOp(TealOp(<<PyOp("int"),
                                 PyInt(FromNat(intEnumValues[heap[frame.self].name]))>>))
    /\ UNCHANGED <<heap, ctor, intEnumValues, options, remembered, typeOut, strOut>>

\* return TealBlock.FromOp(op)
EnumInt__teal__return ==
    /\ Running("EnumInt", EnumInt__teal__body, "return")
    /\ frame' = AfterReturn(TealBlock_FromOp(<<frame.op>>))
    /\ UNCHANGED <<heap, ctor, intEnumValues, options, remembered, typeOut, strOut>>

\* the client keeps the outcome of a finished call to compare a later one with
Remember ==
    /\ frame.pc \in {"returned", "raised"}
    /\ remembered # frame
    /\ remembered' = frame
    /\ UNCHANGED <<heap, ctor, intEnumValues, options, frame, typeOut, strOut>>

(***************************************************************************)
(* Specifications.                                                         *)
(***************************************************************************)
\* construction of the literals from every input, and their strings
NextCtor ==
    \/ \E value \in IntArgs : NewInt(value)
    \/ \E name \in NameArgs : NewEnumInt(name)
    \/ \E i \in 1..MaxNodes : CallStr(i)

SpecCtor == Init /\ [][NextCtor]_vars

\* Global objects lowered under a context
NextGlobal ==
    \/ \E factory \in DOMAIN GlobalFactory : NewGlobal(factory)
    \/ \E version \in 1..MaxVersion : NewOptions(version)
    \/ \E i \in 1..MaxNodes : Call__teal__(i, 1)
    \/ Global__teal__verify
    \/ Global__teal__op
    \/ Global__teal__return
    \/ Remember

SpecGlobal == Init /\ [][NextGlobal]_vars

LowerStep ==
    \/ Global__teal__verify
    \/ Global__teal__op
    \/ Global__teal__return
    \/ Int__teal__op
    \/ Int__teal__return
    \/ EnumInt__teal__op
    \/ EnumInt__teal__return

\* all three classes, lowered and asked for their type
NextType ==
    \/ \E factory \in DOMAIN GlobalFactory : NewGlobal(factory)
    \/ \E value \in LiteralArgs : NewInt(value)
    \/ \E name \in DOMAIN intEnumValues_literal : NewEnumInt(name)
    \/ \E version \in 1..MaxVersion : NewOptions(version)
    \/ \E i \in 1..MaxNodes, nargs \in {0, 1} : Call__teal__(i, nargs)
    \/ LowerStep
    \/ \E i \in 1..MaxNodes : CallTypeOf(i)

SpecType == Init /\ [][NextType]_vars

\* all three classes, lowered, with an earlier outcome kept
Next ==
    \/ \E factory \in DOMAIN GlobalFactory : NewGlobal(factory)
    \/ \E value \in LiteralArgs : NewInt(value)
    \/ \E name \in DOMAIN intEnumValues_literal : NewEnumInt(name)
    \/ \E version \in 1..MaxVersion : NewOptions(version)
    \/ \E i \in 1..MaxNodes, nargs \in {0, 1} : Call__teal__(i, nargs)
    \/ LowerStep
    \/ Remember

Spec == Init /\ [][Next]_vars

(***************************************************************************)
(* Properties.                                                             *)
(***************************************************************************)
\* a call of __teal__ has ended
Done(f) == f.pc \in {"returned", "raised"}

\* the class of the object a call was made on
ClsOf(f) == heap[f.self].cls

\* 0 <= v < 2^64, read off the limbs: at most five of them, the fifth below 2^4
InUint64(v) ==
    /\ ~v.neg
    /\ Len(v.mag) <= 5
    /\ Len(v.mag) = 5 => v.mag[5] < 16

\* int(digits): the magnitude a digit sequence denotes
RECURSIVE MagOfDigits(_)
MagOfDigits(ds) ==
    IF ds = <<>> THEN <<>>
    ELSE MagMulAdd(MagOfDigits(SubSeq(ds, 1, Len(ds) - 1)), 10, ds[Len(ds)])

\* the keys of intEnumValues, as int.py lists them
EnumNames ==
    {"NoOp", "OptIn", "CloseOut", "ClearState", "UpdateApplication",
     "DeleteApplication", "unknown", "pay", "keyreg", "acfg", "axfer", "afrz",
     "appl"}

\* what a call returned or raised, without the bookkeeping of the call
Outcome(f) == [pc |-> f.pc, ops |-> f.block.ops, exc |-> f.exc]

\* C1: lowering a Global on row (n, m) with options.version = k succeeds iff
\* k >= m; on success the unit holds exactly one instruction, opcode global
\* with the single operand n; on failure the error is the unsupported-version
\* error carrying n, m and k and no instruction is produced.  GroupSize fails
\* at 1 and succeeds at 2, CreatorAddress fails at 2 and succeeds at 3.
C1_GlobalLowering ==
    \A f \in {frame, remembered} :
        (Done(f) /\ ClsOf(f) = "Global" /\ f.nargs = 1) =>
            LET row == GlobalField[heap[f.self].field]
                n == row.arg_name
                m == row.min_version
                k == f.version
            IN  /\ (f.pc = "returned") <=> (k >= m)
                /\ f.pc = "returned" =>
                     /\ f.block.set
                     /\ Len(f.block.ops) = 1
                     /\ f.block.ops[1].op = PyOp("global_")
                     /\ f.block.ops[1].args = <<PyStr(n)>>
                /\ f.pc = "raised" =>
                     /\ f.exc = [exc |-> "UnsupportedVersionError",
                                 msg |-> f.exc.msg, field |-> n,
                                 min_version |-> m, version |-> k]
                     /\ ~f.op.set
                     /\ ~f.block.set
                /\ n = "GroupSize" => ((f.pc = "returned") <=> (k >= 2))
                /\ n = "CreatorAddress" => ((f.pc = "returned") <=> (k >= 3))

\* CreatorAddress failed at version 2, and the same object lowered at version 3
C1_Witness ==
    /\ Done(remembered) /\ Done(frame)
    /\ remembered.self = frame.self
    /\ heap[frame.self].field = "creator_address"
    /\ remembered.pc = "raised" /\ remembered.version = 2
    /\ frame.pc = "returned" /\ frame.version = 3
    /\ frame.block.ops[1].args = <<PyStr("CreatorAddress")>>

C3_IntRejects ==
    ctor.cls = "Int" =>
        /\ ctor.arg.type # "int" =>
              /\ ~ctor.ok
              /\ ctor.exc = TealInputError(
                     "invalid input type <class '" \o ctor.arg.type \o "'> to Int")
        /\ (ctor.arg.type = "int" /\ ~InUint64(ctor.arg.num)) =>
              /\ ~ctor.ok
              /\ ctor.exc = TealInputError(
                     "Int " \o IntStr(ctor.arg.num) \o " is out of range")
              /\ ctor.arg.num = TwoTo64 =>
                     ctor.exc.msg = "Int 18446744073709551616 is out of range"
              /\ ctor.arg.num = IntNeg(FromNat(1)) =>
                     ctor.exc.msg = "Int -1 is out of range"
        /\ ~ctor.ok => (ctor.ref = 0 /\ Len(heap) = ctor.before)

\* Int(2^64) was refused
C3_Witness ==
    /\ ctor.cls = "Int" /\ ~ctor.ok
    /\ ctor.arg = PyInt(TwoTo64)
    /\ ctor.exc.msg = "Int 18446744073709551616 is out of range"
    /\ heap = <<>>

\* C5: for every name that is not exactly a key of intEnumValues, EnumInt(name)
\* fails in the constructor with the unknown-enum-value error and no node is
\* produced: no EnumInt object with an unknown name ever reaches lowering.
C5_EnumRejects ==
    /\ (ctor.cls = "EnumInt" /\ ctor.arg.s \notin EnumNames) =>
          /\ ~ctor.ok
          /\ ctor.exc = TealInputError("Unknown int enum value: " \o ctor.arg.s)
          /\ ctor.ref = 0
          /\ Len(heap) = ctor.before
    /\ \A i \in DOMAIN heap :
          heap[i].cls = "EnumInt" => heap[i].name \in EnumNames

\* EnumInt("optin") was refused
C5_Witness ==
    /\ ctor.cls = "EnumInt" /\ ~ctor.ok
    /\ ctor.arg.s = "optin"
    /\ ctor.exc.exc = "TealInputError"

\* the result type of each class's objects, by the name the object was made with
ExpectedType(c) ==
    IF c.cls = "Global" /\ c.arg.s \in {"zero_address", "creator_address"}
    THEN "bytes" ELSE "uint64"

\* C7: type_of() is total and does not depend on the lowering context: called
\* before any lowering, after one that returned or after one that failed on
\* the version, it gives the ret_type of the Global's row (bytes for
\* ZeroAddress and CreatorAddress, uint64 for the others) and uint64 for Int
\* and EnumInt.
C7_TypeOfStructural ==
    /\ ctor.ok =>
          /\ type_of(heap[ctor.ref]) = ExpectedType(ctor)
          /\ heap[ctor.ref].cls = "Global" =>
                type_of(heap[ctor.ref]) = GlobalField[heap[ctor.ref].field].ret_type
    /\ \A i \in DOMAIN heap :
          /\ type_of(heap[i]) \in {"uint64", "bytes"}
          /\ heap[i].cls = "Global" =>
                (type_of(heap[i]) = "bytes"
                    <=> GlobalField[heap[i].field].arg_name
                            \in {"ZeroAddress", "CreatorAddress"})
          /\ heap[i].cls \in {"Int", "EnumInt"} => type_of(heap[i]) = "uint64"
          /\ typeOut.node = i => typeOut.result = type_of(heap[i])

\* type_of() of Global.creator_address() was called after its lowering had
\* failed on the version, and gave bytes
C7_Witness ==
    /\ typeOut.node \in DOMAIN heap
    /\ heap[typeOut.node].field = "creator_address"
    /\ typeOut.after = [self |-> typeOut.node, pc |-> "raised",
                        exc |-> "UnsupportedVersionError"]
    /\ typeOut.result = "bytes"

\* C9: in Global.__teal__ the version check comes before the instruction: no
\* instruction is built and no unit wrapped before the check has passed, and
\* a call that ends in the version error never held an instruction or a unit.
C9_CheckBeforeEmit ==
    (frame.pc # "idle" /\ ClsOf(frame) = "Global") =>
        /\ (frame.op.set \/ frame.block.set) => frame.verified
        /\ frame.block.set => frame.op.set
        /\ (frame.pc = "raised" /\ frame.nargs = 1) =>
              (~frame.verified /\ ~frame.op.set /\ ~frame.block.set)

\* Global.group_size() lowered at version 1: the check raised, nothing was built
C9_Witness ==
    /\ frame.pc = "raised"
    /\ ClsOf(frame) = "Global"
    /\ heap[frame.self].field = "group_size"
    /\ frame.version = 1
    /\ frame.exc.exc = "UnsupportedVersionError"
    /\ ~frame.op.set

\* C6: lowering is total on literals: for every Int or EnumInt object and
\* every context, __teal__ called with the context returns a unit of exactly
\* one instruction; only a Global's lowering can fail, and only on the version.
C6_LiteralLoweringTotal ==
    (Done(frame) /\ frame.nargs = 1) =>
        /\ ClsOf(frame) \in {"Int", "EnumInt"} =>
              (frame.pc = "returned" /\ frame.block.set /\ Len(frame.block.ops) = 1)
        /\ frame.pc = "raised" =>
              (ClsOf(frame) = "Global" /\ frame.exc.exc = "UnsupportedVersionError")

C8_LoweringIdempotent ==
    /\ (Done(frame) /\ Done(remembered) /\ frame.self = remembered.self
         /\ frame.nargs = remembered.nargs /\ frame.version = remembered.version) =>
          Outcome(frame) = Outcome(remembered)
    /\ (Done(frame) /\ frame.nargs = 1) =>
          \/ frame.pc = "returned" /\ Len(frame.block.ops) = 1
          \/ frame.pc = "raised" /\ frame.exc.exc = "UnsupportedVersionError"
    /\ intEnumValues = intEnumValues_literal
    /\ (frame.pc = "running" /\ frame.nargs = 1) => options.version = frame.version
    /\ (ctor.ok /\ ctor.cls = "Global") =>
          heap[ctor.ref] = Global__init__(GlobalFactory[ctor.arg.s])
    /\ (ctor.ok /\ ctor.cls = "Int") => heap[ctor.ref] = Int__init__(ctor.arg).node
    /\ (ctor.ok /\ ctor.cls = "EnumInt") =>
          heap[ctor.ref] = EnumInt__init__(intEnumValues_literal, ctor.arg.s).node

\* C10: every instruction lowering emits, for all three classes, holds the
\* opcode, the operands and a back-reference that is the object being
\* lowered, and is wrapped into the unit with the current context.
C10_InstructionShape ==
    /\ (frame.pc # "idle" /\ frame.op.set) =>
          frame.op.expr = PyRef(ClsOf(frame), frame.self)
    /\ (Done(frame) /\ frame.nargs = 1
         /\ frame.exc.exc # "UnsupportedVersionError") =>
          /\ frame.pc = "returned"
          /\ frame.block.ops = <<frame.op>>
          /\ frame.block.version = frame.version

====
